---- MODULE Spec2Model ----
(***************************************************************************)
(* Model of the Bun worker pool of packages/pdf-processor                  *)
(* (src/packages/pdf-processor/src/core/schemas/index.ts, classes          *)
(* WorkerPool and WorkerPoolManager).                                       *)
(*                                                                         *)
(* The pool's coordinator is single threaded: every handler (executeTask,  *)
(* onmessage, onerror, a setTimeout callback) runs to completion, so each  *)
(* handler is one action.  shutdown() and shutdownAll() are the only       *)
(* methods with an await and are split in the part before and the part     *)
(* after the await.                                                        *)
(*                                                                         *)
(* Spec / FairSpec : one WorkerPool and its workers.                       *)
(* RegSpec         : a WorkerPoolManager and the pools it constructs.      *)
(***************************************************************************)
EXTENDS Integers, Sequences, FiniteSets, TLC

(* ---- bounds of the model ---------------------------------------------- *)
MaxPoolSize == 2      \* config.maxWorkers is drawn from 1..MaxPoolSize
MaxWork == 5          \* size of a run of one pool: config.maxWorkers plus the
                      \* executeTask calls, worker error events and
                      \* shutdown() calls made on it
MaxRegCalls == 3      \* getPool, executeTask, shutdown() and shutdownAll()
                      \* calls on a registry and its pools, taken together
MaxNames == 2         \* pool names passed to getPool

Tasks == 1..(MaxWork - 1)
WorkerIds == 1..MaxWork
NoWorker == 0
PoolIds == 1..MaxRegCalls
Names == 1..MaxNames
Configs == 1..MaxPoolSize     \* a WorkerPoolConfig, by its maxWorkers
NoConfig == 0                 \* getPool(name) without config
NoPool == 0                   \* pools.has(name) is false
Throw == -1                   \* getPool throws

VARIABLES
    maxWorkers,        \* config.maxWorkers
    workers,           \* Worker[]      (sequence of worker ids)
    availableWorkers,  \* Worker[]
    pendingTasks,      \* WorkerTask[]  (sequence of task ids)
    activeTasks,       \* Map<taskId, WorkerTask> (its key set)
    settlements,       \* per task: the resolve / reject invocations, in order
    timers,            \* tasks whose setTimeout callback has not run yet
    posted,            \* per worker: messages posted to it and not answered
    assigned,          \* per task: the worker it was posted to (NoWorker if none)
    dispatched,        \* task ids in the order processPendingTasks posted them
    stopped,           \* workers terminated by shutdown(): they emit no event
    replies,           \* per task: result.success of the reply received
    nextTask,          \* next fresh task id (crypto.randomUUID)
    nextWorker,        \* next fresh worker id (new Worker)
    errCount,          \* error events so far
    shutdownsStarted,  \* shutdown() calls so far
    shutdownsWaiting,  \* shutdown() calls suspended at the await
    \* WorkerPoolManager
    pools,             \* Map<string, WorkerPool>: name -> pool object (NoPool)
    poolObjs,          \* the WorkerPool objects constructed by getPool
    nextPool,          \* next fresh pool object
    allCalls,          \* the shutdownAll() calls, suspended or returned
    regCalls,          \* calls made on the registry and its pools so far
    lastGet            \* the last getPool call: its arguments and its result

poolVars == <<maxWorkers, workers, availableWorkers, pendingTasks, activeTasks,
              settlements, timers, posted, assigned, dispatched, stopped,
              replies, nextTask, nextWorker, errCount, shutdownsStarted,
              shutdownsWaiting>>

regVars == <<pools, poolObjs, nextPool, allCalls, regCalls, lastGet>>

vars == <<maxWorkers, workers, availableWorkers, pendingTasks, activeTasks,
          settlements, timers, posted, assigned, dispatched, stopped,
          replies, nextTask, nextWorker, errCount, shutdownsStarted,
          shutdownsWaiting, pools, poolObjs, nextPool, allCalls, regCalls,
          lastGet>>

\* size of the run so far
Work == maxWorkers + (nextTask - 1) + errCount + shutdownsStarted

(* ---- helpers ---------------------------------------------------------- *)
Range(s) == {s[i] : i \in 1..Len(s)}

RECURSIVE Without(_, _)
\* Array.prototype.filter(w => w !== x)
Without(s, x) ==
    IF s = <<>> THEN <<>>
    ELSE IF Head(s) = x THEN Without(Tail(s), x)
         ELSE <<Head(s)>> \o Without(Tail(s), x)

\* the mutable fields of the pool, as one record the handlers transform
Pool ==
    [workers |-> workers, availableWorkers |-> availableWorkers,
     pendingTasks |-> pendingTasks, activeTasks |-> activeTasks,
     settlements |-> settlements, timers |-> timers, posted |-> posted,
     assigned |-> assigned, dispatched |-> dispatched, stopped |-> stopped,
     nextWorker |-> nextWorker, replies |-> replies]

Commit(s) ==
    /\ workers' = s.workers
    /\ availableWorkers' = s.availableWorkers
    /\ pendingTasks' = s.pendingTasks
    /\ activeTasks' = s.activeTasks
    /\ settlements' = s.settlements
    /\ timers' = s.timers
    /\ posted' = s.posted
    /\ assigned' = s.assigned
    /\ dispatched' = s.dispatched
    /\ stopped' = s.stopped
    /\ nextWorker' = s.nextWorker
    /\ replies' = s.replies

\* task.resolve(...) / task.reject(...)
Settle(s, t, how) ==
    [s EXCEPT !.settlements[t] = Append(@, how)]

RECURSIVE SettleAll(_, _, _)
\* a loop that rejects every task of a collection
SettleAll(s, ts, how) ==
    IF ts = {} THEN s
    ELSE LET t == CHOOSE x \in ts : \A y \in ts : x <= y
         IN SettleAll(Settle(s, t, how), ts \ {t}, how)

(* ---- the pool's methods ----------------------------------------------- *)
RECURSIVE processPendingTasks_Pop(_)
\* mutant: pendingTasks.pop() instead of pendingTasks.shift()
processPendingTasks_Pop(s) ==
    IF Len(s.pendingTasks) > 0 /\ Len(s.availableWorkers) > 0
    THEN LET task == s.pendingTasks[Len(s.pendingTasks)]
             worker == Head(s.availableWorkers)
         IN processPendingTasks_Pop(
              [s EXCEPT !.pendingTasks = SubSeq(@, 1, Len(@) - 1),
                        !.availableWorkers = Tail(@),
                        !.activeTasks = @ \cup {task},
                        !.timers = @ \cup {task},
                        !.posted[worker] = @ \cup {task},
                        !.assigned[task] = worker,
                        !.dispatched = Append(@, task)])
    ELSE s

RECURSIVE processPendingTasks_NoTimer(_)
\* mutant: the dispatch loop posts the task without calling setTimeout
processPendingTasks_NoTimer(s) ==
    IF Len(s.pendingTasks) > 0 /\ Len(s.availableWorkers) > 0
    THEN LET task == Head(s.pendingTasks)
             worker == Head(s.availableWorkers)
         IN processPendingTasks_NoTimer(
              [s EXCEPT !.pendingTasks = Tail(@),
                        !.availableWorkers = Tail(@),
                        !.activeTasks = @ \cup {task},
                        !.posted[worker] = @ \cup {task},
                        !.assigned[task] = worker,
                        !.dispatched = Append(@, task)])
    ELSE s

RECURSIVE processPendingTasks(_)
processPendingTasks(s) ==
    IF Len(s.pendingTasks) > 0 /\ Len(s.availableWorkers) > 0
    THEN LET task == Head(s.pendingTasks)
             worker == Head(s.availableWorkers)
         IN processPendingTasks(
              [s EXCEPT !.pendingTasks = Tail(@),
                        !.availableWorkers = Tail(@),
                        !.activeTasks = @ \cup {task},
                        !.timers = @ \cup {task},
                        !.posted[worker] = @ \cup {task},
                        !.assigned[task] = worker,
                        !.dispatched = Append(@, task)])
    ELSE s

\* mutant: the timer is armed at submission, before a worker is assigned
executeTask_ArmsTimer(s, task) ==
    processPendingTasks(
      [s EXCEPT !.pendingTasks = Append(@, task), !.timers = @ \cup {task}])

executeTask(s, task) ==
    processPendingTasks([s EXCEPT !.pendingTasks = Append(@, task)])

\* mutant: the timeout forgets this.activeTasks.delete(task.taskId)
handleTaskTimeout_KeepsActive(s, task) ==
    Settle(s, task, "timeout")

\* mutant: the timeout hands the worker back and re-runs dispatch
handleTaskTimeout_FreesWorker(s, task) ==
    processPendingTasks(
      Settle([s EXCEPT !.activeTasks = @ \ {task},
                       !.availableWorkers = Append(@, s.assigned[task])],
             task, "timeout"))

\* mutant: the timeout also drops the task's worker from the pool
handleTaskTimeout_DropsWorker(s, task) ==
    Settle([s EXCEPT !.activeTasks = @ \ {task},
                     !.workers = Without(@, s.assigned[task])],
           task, "timeout")

handleTaskTimeout(s, task) ==
    Settle([s EXCEPT !.activeTasks = @ \ {task}], task, "timeout")

\* mutant: the reply is handled without the activeTasks lookup guard
handleWorkerMessage_NoGuard(s, worker, taskId, success) ==
    processPendingTasks(
      Settle([s EXCEPT !.activeTasks = @ \ {taskId},
                       !.availableWorkers = Append(@, worker)],
             taskId, IF success THEN "resolved" ELSE "failed"))

\* mutant: the reply forgets this.activeTasks.delete(taskId)
handleWorkerMessage_KeepsActive(s, worker, taskId, success) ==
    IF taskId \notin s.activeTasks
    THEN s
    ELSE processPendingTasks(
           Settle([s EXCEPT !.availableWorkers = Append(@, worker)],
                  taskId, IF success THEN "resolved" ELSE "failed"))

\* mutant: the reply ignores result.success and always resolves
handleWorkerMessage_AlwaysResolves(s, worker, taskId, success) ==
    IF taskId \notin s.activeTasks
    THEN s
    ELSE processPendingTasks(
           Settle([s EXCEPT !.activeTasks = @ \ {taskId},
                            !.availableWorkers = Append(@, worker)],
                  taskId, "resolved"))

\* mutant: the reply does not re-run processPendingTasks
handleWorkerMessage_NoDispatch(s, worker, taskId, success) ==
    IF taskId \notin s.activeTasks
    THEN s
    ELSE Settle([s EXCEPT !.activeTasks = @ \ {taskId},
                          !.availableWorkers = Append(@, worker)],
                taskId, IF success THEN "resolved" ELSE "failed")

handleWorkerMessage(s, worker, taskId, success) ==
    IF taskId \notin s.activeTasks
    THEN s
    ELSE processPendingTasks(
           Settle([s EXCEPT !.activeTasks = @ \ {taskId},
                            !.availableWorkers = Append(@, worker)],
                  taskId, IF success THEN "resolved" ELSE "failed"))

\* ok = FALSE: new Worker(...) throws and the catch block only logs
createReplacementWorker(s, ok) ==
    IF ok
    THEN [s EXCEPT !.workers = Append(@, s.nextWorker),
                   !.availableWorkers = Append(@, s.nextWorker),
                   !.nextWorker = @ + 1]
    ELSE s

\* mutant: the tasks of the failed worker are queued again after the rejection
handleWorkerError_Requeues(s, worker, ok) ==
    LET rejected == SettleAll(s, s.activeTasks, "workerError")
    IN createReplacementWorker(
         [rejected EXCEPT !.activeTasks = {},
                          !.pendingTasks = @ \o
                              SelectSeq(s.dispatched,
                                        LAMBDA t : t \in s.activeTasks),
                          !.workers = Without(@, worker),
                          !.availableWorkers = Without(@, worker)],
         ok)

handleWorkerError(s, worker, ok) ==
    LET rejected == SettleAll(s, s.activeTasks, "workerError")
    IN createReplacementWorker(
         [rejected EXCEPT !.activeTasks = {},
                          !.workers = Without(@, worker),
                          !.availableWorkers = Without(@, worker)],
         ok)

\* mutant: shutdown() forgets this.activeTasks.clear()
shutdownBegin_KeepsActive(s) ==
    LET r1 == SettleAll(s, s.activeTasks, "shutdown")
        r2 == SettleAll(r1, Range(s.pendingTasks), "shutdown")
    IN [r2 EXCEPT !.pendingTasks = <<>>,
                  !.stopped = @ \cup Range(s.workers)]

\* shutdown() up to the await: rejections, then worker.terminate() on each worker
shutdownBegin(s) ==
    LET r1 == SettleAll(s, s.activeTasks, "shutdown")
        r2 == SettleAll([r1 EXCEPT !.activeTasks = {}],
                        Range(s.pendingTasks), "shutdown")
    IN [r2 EXCEPT !.pendingTasks = <<>>,
                  !.stopped = @ \cup Range(s.workers)]

\* shutdown() after the await
shutdownEnd(s) ==
    [s EXCEPT !.workers = <<>>, !.availableWorkers = <<>>]

(* ---- initial state: new WorkerPool(config) ---------------------------- *)
Init ==
    /\ maxWorkers \in 1..MaxPoolSize
    /\ workers = [i \in 1..maxWorkers |-> i]
    /\ availableWorkers = [i \in 1..maxWorkers |-> i]
    /\ pendingTasks = <<>>
    /\ activeTasks = {}
    /\ settlements = [t \in Tasks |-> <<>>]
    /\ timers = {}
    /\ posted = [w \in WorkerIds |-> {}]
    /\ assigned = [t \in Tasks |-> NoWorker]
    /\ dispatched = <<>>
    /\ stopped = {}
    /\ replies = [t \in Tasks |-> "none"]
    /\ nextTask = 1
    /\ nextWorker = maxWorkers + 1
    /\ errCount = 0
    /\ shutdownsStarted = 0
    /\ shutdownsWaiting = 0
    /\ pools = [n \in Names |-> NoPool]
    /\ poolObjs = [p \in PoolIds |-> NoPool]
    /\ nextPool = 1
    /\ allCalls = <<>>
    /\ regCalls = [get |-> 0, other |-> 0]
    /\ lastGet = [name |-> 0, config |-> NoConfig, result |-> NoPool]

(* ---- actions ---------------------------------------------------------- *)
ExecuteTask ==
    /\ Work < MaxWork
    /\ Commit(executeTask(Pool, nextTask))
    /\ nextTask' = nextTask + 1
    /\ UNCHANGED <<maxWorkers, errCount, shutdownsStarted, shutdownsWaiting>>
    /\ UNCHANGED regVars

\* worker.onmessage: the worker answers one message it was posted
WorkerMessage(w, t, success) ==
    /\ w \notin stopped
    /\ t \in posted[w]
    /\ Commit(handleWorkerMessage(
                [Pool EXCEPT !.posted[w] = @ \ {t},
                             !.replies[t] = IF success THEN "ok" ELSE "fail"],
                w, t, success))
    /\ UNCHANGED <<maxWorkers, nextTask, errCount, shutdownsStarted,
                   shutdownsWaiting>>
    /\ UNCHANGED regVars

\* worker.onerror, on any worker ever created that was not terminated: the
\* handler stays attached to a worker removed from the pool.  A worker that
\* is gone after its error event is one that emits nothing further.
WorkerError(w, ok) ==
    /\ Work < MaxWork
    /\ w \in 1..(nextWorker - 1)
    /\ w \notin stopped
    /\ Commit(handleWorkerError(Pool, w, ok))
    /\ errCount' = errCount + 1
    /\ UNCHANGED <<maxWorkers, nextTask, shutdownsStarted, shutdownsWaiting>>
    /\ UNCHANGED regVars

\* the setTimeout callback of processPendingTasks
TimerFire(t) ==
    /\ t \in timers
    /\ Commit(IF t \in activeTasks
              THEN handleTaskTimeout([Pool EXCEPT !.timers = @ \ {t}], t)
              ELSE [Pool EXCEPT !.timers = @ \ {t}])
    /\ UNCHANGED <<maxWorkers, nextTask, errCount, shutdownsStarted,
                   shutdownsWaiting>>
    /\ UNCHANGED regVars

ShutdownBegin ==
    /\ Work < MaxWork
    /\ Commit(shutdownBegin(Pool))
    /\ shutdownsStarted' = shutdownsStarted + 1
    /\ shutdownsWaiting' = shutdownsWaiting + 1
    /\ UNCHANGED <<maxWorkers, nextTask, errCount>>
    /\ UNCHANGED regVars

ShutdownEnd ==
    /\ shutdownsWaiting > 0
    /\ Commit(shutdownEnd(Pool))
    /\ shutdownsWaiting' = shutdownsWaiting - 1
    /\ UNCHANGED <<maxWorkers, nextTask, errCount, shutdownsStarted>>
    /\ UNCHANGED regVars

Next ==
    \/ ExecuteTask
    \/ \E w \in WorkerIds, t \in Tasks, success \in BOOLEAN :
          WorkerMessage(w, t, success)
    \/ \E w \in WorkerIds, ok \in BOOLEAN : WorkerError(w, ok)
    \/ \E t \in Tasks : TimerFire(t)
    \/ ShutdownBegin
    \/ ShutdownEnd

Spec == Init /\ [][Next]_vars

\* timers fire, a running worker answers what it was posted, and the
\* termination awaited by shutdown() completes
Fairness ==
    /\ \A t \in Tasks : WF_vars(TimerFire(t))
    /\ \A w \in WorkerIds, t \in Tasks :
          WF_vars(\E success \in BOOLEAN : WorkerMessage(w, t, success))
    /\ WF_vars(ShutdownEnd)

FairSpec == Spec /\ Fairness

TypeOK ==
    /\ maxWorkers \in 1..MaxPoolSize
    /\ Range(workers) \subseteq WorkerIds
    /\ Range(availableWorkers) \subseteq WorkerIds
    /\ Range(pendingTasks) \subseteq Tasks
    /\ activeTasks \subseteq Tasks
    /\ timers \subseteq Tasks
    /\ stopped \subseteq WorkerIds
    /\ nextTask \in 1..MaxWork
    /\ nextWorker \in 1..(MaxWork + 1)
    /\ Work <= MaxWork

(* ======================================================================= *)
(* WorkerPoolManager: the registry of named pools                          *)
(* ======================================================================= *)
\* new WorkerPool(config): the pool object after initializeWorkers, with the
\* bookkeeping of its own task ids and of its suspended shutdown() calls
NewPool(config) ==
    [workers |-> [i \in 1..config |-> i],
     availableWorkers |-> [i \in 1..config |-> i],
     pendingTasks |-> <<>>,
     activeTasks |-> {},
     settlements |-> [t \in Tasks |-> <<>>],
     timers |-> {},
     posted |-> [w \in WorkerIds |-> {}],
     assigned |-> [t \in Tasks |-> NoWorker],
     dispatched |-> <<>>,
     stopped |-> {},
     replies |-> [t \in Tasks |-> "none"],
     nextWorker |-> config + 1,
     maxWorkers |-> config,
     nextTask |-> 1,
     shutdownCalls |-> 0,     \* shutdown() calls on this pool so far
     waiting |-> <<>>]        \* suspended shutdown() calls: 0 = called
                              \* directly, k > 0 = by the k-th shutdownAll()

\* the manager's fields, and the value the call returns
Reg ==
    [pools |-> pools, poolObjs |-> poolObjs, nextPool |-> nextPool,
     result |-> NoPool]

Constructed == 1..(nextPool - 1)
RegCalls == regCalls.get + regCalls.other
Registered == {pools[n] : n \in Names} \ {NoPool}

\* mutant: the pools.has(name) test is dropped, every call constructs a pool
getPool_AlwaysCreates(r, name, config) ==
    IF config = NoConfig
    THEN [r EXCEPT !.result = Throw]
    ELSE [r EXCEPT !.pools[name] = r.nextPool,
                   !.poolObjs[r.nextPool] = NewPool(config),
                   !.nextPool = @ + 1,
                   !.result = r.nextPool]

\* mutant: a missing config is replaced by a default instead of throwing
getPool_DefaultConfig(r, name, config) ==
    IF r.pools[name] = NoPool
    THEN [r EXCEPT !.pools[name] = r.nextPool,
                   !.poolObjs[r.nextPool] =
                       NewPool(IF config = NoConfig THEN 1 ELSE config),
                   !.nextPool = @ + 1,
                   !.result = r.nextPool]
    ELSE [r EXCEPT !.result = r.pools[name]]

getPool(r, name, config) ==
    IF r.pools[name] = NoPool
    THEN IF config = NoConfig
         THEN [r EXCEPT !.result = Throw]
         ELSE [r EXCEPT !.pools[name] = r.nextPool,
                        !.poolObjs[r.nextPool] = NewPool(config),
                        !.nextPool = @ + 1,
                        !.result = r.nextPool]
    ELSE [r EXCEPT !.result = r.pools[name]]

\* pool.shutdown() up to its await, called directly (by = 0) or by shutdownAll
poolShutdownBegin(o, by) ==
    [shutdownBegin(o) EXCEPT !.shutdownCalls = @ + 1,
                             !.waiting = Append(@, by)]

GetPool(name, config) ==
    LET r == getPool(Reg, name, config)
    IN /\ RegCalls < MaxRegCalls
       /\ pools' = r.pools
       /\ poolObjs' = r.poolObjs
       /\ nextPool' = r.nextPool
       /\ lastGet' = [name |-> name, config |-> config, result |-> r.result]
       /\ regCalls' = [regCalls EXCEPT !.get = @ + 1]
       /\ UNCHANGED allCalls
       /\ UNCHANGED poolVars

\* pool.executeTask(...) on a pool object obtained from getPool
PoolExecuteTask(p) ==
    /\ p \in Constructed
    /\ RegCalls < MaxRegCalls
    /\ poolObjs[p].nextTask \in Tasks
    /\ poolObjs' = [poolObjs EXCEPT ![p] =
                      [executeTask(@, @.nextTask) EXCEPT !.nextTask = @ + 1]]
    /\ regCalls' = [regCalls EXCEPT !.other = @ + 1]
    /\ UNCHANGED <<pools, nextPool, allCalls, lastGet>>
    /\ UNCHANGED poolVars

PoolWorkerMessage(p, w, t, success) ==
    /\ p \in Constructed
    /\ w \notin poolObjs[p].stopped
    /\ t \in poolObjs[p].posted[w]
    /\ poolObjs' = [poolObjs EXCEPT ![p] =
                      handleWorkerMessage(
                          [@ EXCEPT !.posted[w] = @ \ {t},
                                    !.replies[t] =
                                        IF success THEN "ok" ELSE "fail"],
                          w, t, success)]
    /\ UNCHANGED <<pools, nextPool, allCalls, regCalls, lastGet>>
    /\ UNCHANGED poolVars

PoolTimerFire(p, t) ==
    /\ p \in Constructed
    /\ t \in poolObjs[p].timers
    /\ poolObjs' = [poolObjs EXCEPT ![p] =
                      IF t \in @.activeTasks
                      THEN handleTaskTimeout([@ EXCEPT !.timers = @ \ {t}], t)
                      ELSE [@ EXCEPT !.timers = @ \ {t}]]
    /\ UNCHANGED <<pools, nextPool, allCalls, regCalls, lastGet>>
    /\ UNCHANGED poolVars

\* pool.shutdown() called on a pool object directly, up to the await
PoolShutdownBegin(p) ==
    /\ p \in Constructed
    /\ RegCalls < MaxRegCalls
    /\ poolObjs' = [poolObjs EXCEPT ![p] = poolShutdownBegin(@, 0)]
    /\ regCalls' = [regCalls EXCEPT !.other = @ + 1]
    /\ UNCHANGED <<pools, nextPool, allCalls, lastGet>>
    /\ UNCHANGED poolVars

\* the oldest suspended shutdown() call of pool p resumes and returns
PoolShutdownEnd(p) ==
    /\ p \in Constructed
    /\ poolObjs[p].waiting # <<>>
    /\ LET by == Head(poolObjs[p].waiting)
       IN /\ poolObjs' = [poolObjs EXCEPT ![p] =
                            [shutdownEnd(@) EXCEPT !.waiting = Tail(@)]]
          /\ allCalls' = IF by = 0 THEN allCalls
                         ELSE [allCalls EXCEPT ![by].left = @ \ {p}]
    /\ UNCHANGED <<pools, nextPool, regCalls, lastGet>>
    /\ UNCHANGED poolVars

\* shutdownAll() up to its await: pool.shutdown() is called on every value of
\* the map, each running up to its own await
ShutdownAllBegin ==
    /\ RegCalls < MaxRegCalls
    /\ LET k == Len(allCalls) + 1
       IN /\ poolObjs' = [p \in PoolIds |->
                            IF p \in Registered
                            THEN poolShutdownBegin(poolObjs[p], k)
                            ELSE poolObjs[p]]
          /\ allCalls' = Append(allCalls, [state |-> "waiting",
                                           snap |-> Registered,
                                           left |-> Registered])
    /\ regCalls' = [regCalls EXCEPT !.other = @ + 1]
    /\ UNCHANGED <<pools, nextPool, lastGet>>
    /\ UNCHANGED poolVars

\* shutdownAll() after its await: this.pools.clear()
ShutdownAllEnd(k) ==
    /\ k \in 1..Len(allCalls)
    /\ allCalls[k].state = "waiting"
    /\ allCalls[k].left = {}
    /\ pools' = [n \in Names |-> NoPool]
    /\ allCalls' = [allCalls EXCEPT ![k].state = "done"]
    /\ UNCHANGED <<poolObjs, nextPool, regCalls, lastGet>>
    /\ UNCHANGED poolVars

RegInit == Init /\ maxWorkers = 1

RegNext ==
    \/ \E n \in Names, c \in Configs \cup {NoConfig} : GetPool(n, c)
    \/ \E p \in PoolIds : PoolExecuteTask(p)
    \/ \E p \in PoolIds, w \in WorkerIds, t \in Tasks, success \in BOOLEAN :
          PoolWorkerMessage(p, w, t, success)
    \/ \E p \in PoolIds, t \in Tasks : PoolTimerFire(p, t)
    \/ \E p \in PoolIds : PoolShutdownBegin(p)
    \/ \E p \in PoolIds : PoolShutdownEnd(p)
    \/ ShutdownAllBegin
    \/ \E k \in 1..MaxRegCalls : ShutdownAllEnd(k)

RegSpec == RegInit /\ [][RegNext]_vars

(* ======================================================================= *)
(* Properties                                                              *)
(* ======================================================================= *)
Submitted(t) == t < nextTask
Settled(t) == Len(settlements[t]) > 0

\* the step is onmessage handling worker w's reply for task t (a task is
\* posted once, so only the reply takes it out of posted)
MessageStep(w, t) == t \in posted[w] /\ t \notin posted'[w]

\* the step is a worker error event
ErrorStep == errCount' = errCount + 1

\* C1: under every interleaving of replies, timeouts, worker errors and
\* shutdown, resolve/reject is invoked at most once per task.
C1_SettledAtMostOnce ==
    \A t \in Tasks : Len(settlements[t]) <= 1

\* a reply has arrived for a task that had already been settled
C1_Witness ==
    \E t \in Tasks :
        /\ replies[t] # "none"
        /\ settlements[t] \in {<<"timeout">>, <<"workerError">>, <<"shutdown">>}

\* C2: every submitted task is eventually settled, given that timers fire
\* and running workers answer.
C2_EventuallySettled ==
    \A t \in Tasks : Submitted(t) ~> Settled(t)

\* C3: a worker error rejects only the tasks assigned to that worker; tasks
\* active on other workers stay in activeTasks.
C3_CrashIsolation ==
    [][ErrorStep =>
          \E w \in WorkerIds :
              \A t \in activeTasks : assigned[t] # w => t \in activeTasks']_vars

\* C4: the number of tasks with an assigned worker never exceeds maxWorkers.
C4_Capacity ==
    Cardinality(activeTasks) <= maxWorkers

\* C5: no worker has two unanswered tasks, and no worker in availableWorkers
\* is the worker of an active task.
C5_ExclusiveWorker ==
    /\ \A w \in WorkerIds : Cardinality(posted[w]) <= 1
    /\ \A t \in activeTasks : assigned[t] \notin Range(availableWorkers)

\* a task timed out, its worker has not answered and is not offered again
\* although a task is waiting
C5_Witness ==
    \E t \in Tasks :
        /\ settlements[t] = <<"timeout">>
        /\ t \in posted[assigned[t]]
        /\ assigned[t] \in Range(workers)
        /\ assigned[t] \notin Range(availableWorkers)
        /\ pendingTasks # <<>>

\* C6: tasks are dispatched in submission order (task ids are handed out in
\* submission order, so the dispatch log is strictly increasing).
C6_FifoDispatch ==
    \A i, j \in 1..Len(dispatched) : i < j => dispatched[i] < dispatched[j]

\* two tasks were dispatched, the second one after waiting in pendingTasks
\* for the reply to the first
C6_Witness ==
    /\ maxWorkers = 1
    /\ errCount = 0
    /\ shutdownsStarted = 0
    /\ Len(dispatched) = 2
    /\ replies[dispatched[1]] # "none"
    /\ dispatched[2] \in activeTasks

\* C7: between construction and shutdown the pool has exactly maxWorkers
\* workers.
C7_PoolSizeStable ==
    shutdownsStarted = 0 => Len(workers) = maxWorkers

C9_LateReplyFreesWorker ==
    [][\A w \in WorkerIds, t \in Tasks :
          (/\ MessageStep(w, t)
           /\ shutdownsStarted = 0
           /\ w \in Range(workers)
           /\ settlements[t] = <<"timeout">>)
          => \/ w \in Range(availableWorkers')
             \/ posted'[w] # {}]_vars

\* C10: a reply whose taskId is not in activeTasks settles nothing and leaves
\* activeTasks, pendingTasks and the tasks' assignments unchanged.
C10_UnknownReplyDiscarded ==
    [][\A w \in WorkerIds, t \in Tasks :
          (MessageStep(w, t) /\ t \notin activeTasks)
          => /\ settlements' = settlements
             /\ activeTasks' = activeTasks
             /\ pendingTasks' = pendingTasks
             /\ assigned' = assigned]_vars

\* a late reply was discarded while an older task was active
C10_Witness ==
    \E t \in Tasks :
        /\ replies[t] # "none"
        /\ settlements[t] = <<"timeout">>
        /\ \E u \in activeTasks : u < t

\* the step is the part of a shutdown() call before / after its await
ShutdownBeginStep == shutdownsStarted' = shutdownsStarted + 1
ShutdownEndStep == shutdownsWaiting' = shutdownsWaiting - 1

PoolEmpty ==
    /\ activeTasks = {}
    /\ pendingTasks = <<>>
    /\ workers = <<>>
    /\ availableWorkers = <<>>

\* C11: the timer of a task is armed at dispatch: a task waiting in
\* pendingTasks has no timer and is never rejected with a timeout, and every
\* task with a timer or a timeout rejection has been given a worker.
C11_TimeoutFromDispatch ==
    /\ \A t \in Range(pendingTasks) :
          t \notin timers /\ "timeout" \notin Range(settlements[t])
    /\ \A t \in Tasks :
          (t \in timers \/ "timeout" \in Range(settlements[t]))
             => assigned[t] # NoWorker

\* a dispatched task has timed out while another task waits in pendingTasks
C11_Witness ==
    /\ \E t \in Tasks : settlements[t] = <<"timeout">> /\ t \notin timers
    /\ pendingTasks # <<>>
    /\ \A t \in Range(pendingTasks) : ~Settled(t)

\* C12: at every quiescent point no task waits in pendingTasks while a worker
\* is in availableWorkers (dispatch is re-run after every crash replacement).
C12_NoIdleWait ==
    pendingTasks # <<>> => availableWorkers = <<>>

\* C13: shutdown() rejects every pending and active task with the shutdown
\* error and terminates every worker; when it returns, activeTasks,
\* pendingTasks, workers and availableWorkers are empty.
C13_ShutdownClears ==
    [][/\ ShutdownBeginStep =>
            /\ \A t \in activeTasks \cup Range(pendingTasks) :
                  settlements'[t] = Append(settlements[t], "shutdown")
            /\ Range(workers) \subseteq stopped'
       /\ ShutdownEndStep => PoolEmpty']_vars

\* the step belongs to a shutdown() call made after an earlier one
RepeatedShutdownStep ==
    \/ ShutdownBeginStep /\ shutdownsStarted >= 1
    \/ ShutdownEndStep /\ shutdownsStarted >= 2

\* C14: a repeated shutdown() rejects no promise a second time and leaves an
\* already empty pool empty.
C14_ShutdownIdempotent ==
    [][RepeatedShutdownStep =>
          /\ \A t \in Tasks : Settled(t) => settlements'[t] = settlements[t]
          /\ PoolEmpty => PoolEmpty']_vars

\* shutdown() was called again on a pool whose first shutdown has completed
\* and had rejected a task
C14_Witness ==
    /\ shutdownsStarted = 2
    /\ shutdownsWaiting = 1
    /\ PoolEmpty
    /\ \E t \in Tasks : settlements[t] = <<"shutdown">>

\* C19: no automatic retry: a task is posted to a worker at most once and a
\* settled task is neither pending nor active again.
C19_NoRetry ==
    /\ \A i, j \in 1..Len(dispatched) : i # j => dispatched[i] # dispatched[j]
    /\ \A t \in Tasks :
          Settled(t) => t \notin activeTasks /\ t \notin Range(pendingTasks)

\* a task was rejected by a timeout or a worker error and a later task runs
C19_Witness ==
    \E t \in Tasks :
        /\ settlements[t] \in {<<"timeout">>, <<"workerError">>}
        /\ \E u \in activeTasks : u > t

\* C20: a reply with success = false for an active task rejects the promise,
\* removes the task from activeTasks and returns the worker to
\* availableWorkers (or hands it the next pending task), as a success does.
C20_FailureReply ==
    [][\A w \in WorkerIds, t \in Tasks :
          (MessageStep(w, t) /\ t \in activeTasks /\ replies'[t] = "fail") =>
             /\ settlements' = [settlements EXCEPT ![t] = <<"failed">>]
             /\ t \notin activeTasks'
             /\ \/ w \in Range(availableWorkers')
                \/ \E u \in activeTasks' \ activeTasks : assigned'[u] = w]_vars

\* a worker has reported an application-level failure for an active task and
\* is available again
C20_Witness ==
    \E t \in Tasks :
        /\ replies[t] = "fail"
        /\ settlements[t] = <<"failed">>
        /\ assigned[t] \in Range(availableWorkers)

\* the step is an executeTask call; the task it creates is nextTask
SubmitStep == nextTask' = nextTask + 1

\* C21: in a pool with maxWorkers = 1, when the worker running the first
\* task D raises its error, D is rejected with the worker error and the pool
\* has one idle worker again; the task E submitted next is dispatched to that
\* worker and, when that worker replies before E's timer fires, is settled by
\* the reply: resolved when the reply reports success.
C21_CrashThenRecover ==
    [][/\ \A D \in activeTasks :
            (/\ ErrorStep
             /\ maxWorkers = 1 /\ errCount = 0 /\ shutdownsStarted = 0)
            => /\ settlements'[D] = Append(settlements[D], "workerError")
               /\ Len(workers') = 1
               /\ availableWorkers' = workers'
       /\ (/\ SubmitStep
           /\ maxWorkers = 1 /\ errCount = 1 /\ shutdownsStarted = 0
           /\ nextTask = 2 /\ settlements[1] = <<"workerError">>)
          => /\ 2 \in activeTasks'
             /\ assigned'[2] \in Range(workers)
       /\ \A w \in WorkerIds :
            (/\ MessageStep(w, 2)
             /\ maxWorkers = 1 /\ errCount = 1 /\ shutdownsStarted = 0
             /\ settlements[1] = <<"workerError">>
             /\ 2 \in timers)
            => settlements'[2] =
                  <<IF replies'[2] = "ok" THEN "resolved" ELSE "failed">>]_vars

C23_ReplyRedispatches ==
    [][\A w \in WorkerIds, t \in Tasks :
          (MessageStep(w, t) /\ t \in activeTasks) =>
             /\ t \notin activeTasks'
             /\ Len(settlements'[t]) = Len(settlements[t]) + 1
             /\ IF pendingTasks = <<>>
                THEN availableWorkers' = Append(availableWorkers, w)
                ELSE /\ Head(pendingTasks) \in activeTasks'
                     /\ assigned'[Head(pendingTasks)]
                           = Head(Append(availableWorkers, w))]_vars

\* a reply has settled a task and its worker is running the task that was
\* queued behind it, while a third task is still queued
C23_Witness ==
    /\ maxWorkers = 1
    /\ errCount = 0
    /\ shutdownsStarted = 0
    /\ \E t \in Tasks :
          /\ settlements[t] \in {<<"resolved">>, <<"failed">>}
          /\ t + 1 \in activeTasks
          /\ assigned[t + 1] = assigned[t]
    /\ pendingTasks # <<>>

\* the step is the setTimeout callback of task t
TimerStep(t) == t \in timers /\ t \notin timers'

\* C24: when the timer of an active task fires, that task alone leaves
\* activeTasks and is rejected with the timeout error, and availableWorkers,
\* workers and pendingTasks are unchanged; when it fires for a task that is
\* no longer active, nothing changes and nothing is settled.
C24_TimeoutFrame ==
    [][\A t \in Tasks :
          TimerStep(t) =>
             /\ availableWorkers' = availableWorkers
             /\ workers' = workers
             /\ pendingTasks' = pendingTasks
             /\ assigned' = assigned
             /\ IF t \in activeTasks
                THEN /\ activeTasks' = activeTasks \ {t}
                     /\ settlements' =
                           [settlements EXCEPT ![t] = Append(@, "timeout")]
                ELSE /\ activeTasks' = activeTasks
                     /\ settlements' = settlements]_vars

\* one task was rejected by its timer while another stayed active, and the
\* timer of a task already settled by a reply has fired as well
C24_Witness ==
    /\ \E t \in Tasks :
          /\ settlements[t] = <<"timeout">>
          /\ assigned[t] \in Range(workers)
          /\ assigned[t] \notin Range(availableWorkers)
          /\ \E u \in activeTasks : u # t
    /\ \E t \in Tasks :
          /\ settlements[t] \in {<<"resolved">>, <<"failed">>}
          /\ t \notin timers

\* C25: the handler of a worker error removes that worker from workers and
\* availableWorkers, rejects every task active on it with the worker error,
\* and creates exactly one replacement, appended to both workers and
\* availableWorkers; and no task is ever posted to a worker that is not in
\* the pool.
C25_ErrorReplacesWorker ==
    [][/\ ErrorStep =>
            \E w \in 1..(nextWorker - 1) :
                /\ \A t \in activeTasks :
                      assigned[t] = w =>
                          /\ t \notin activeTasks'
                          /\ settlements'[t]
                                = Append(settlements[t], "workerError")
                /\ nextWorker' = nextWorker + 1
                /\ workers' = Append(Without(workers, w), nextWorker)
                /\ availableWorkers'
                      = Append(Without(availableWorkers, w), nextWorker)
       /\ \A t \in Tasks :
            assigned'[t] # assigned[t] => assigned'[t] \in Range(workers)]_vars

\* C26: the timer of a task is started by executeTask, at submission, before
\* a worker is assigned.
C26_TimerAtSubmission ==
    [][SubmitStep => nextTask \in timers']_vars

\* C26 as amended: the timer of a task is started in the step that dispatches
\* it, and in no other: a task gets its timer exactly when it enters
\* activeTasks, so a task submitted while no worker is available waits in
\* pendingTasks without a timer.
C26_TimerAtDispatch ==
    [][/\ \A t \in Tasks :
            (t \in timers' /\ t \notin timers)
               <=> (t \in activeTasks' /\ t \notin activeTasks)
       /\ (SubmitStep /\ availableWorkers = <<>>)
            => nextTask \notin timers' /\ nextTask \in Range(pendingTasks')]_vars

\* a task submitted while the only worker was busy waits without a timer, and
\* the timer of the running task is armed
C26_Witness ==
    /\ maxWorkers = 1
    /\ errCount = 0
    /\ shutdownsStarted = 0
    /\ nextTask = 3
    /\ pendingTasks = <<2>>
    /\ timers = {1}
    /\ activeTasks = {1}

\* C27: no task is dispatched to a worker that shutdown() has terminated, and
\* when a shutdown() call returns activeTasks is empty and every task
\* submitted so far has been settled.
C27_NoDispatchDuringShutdown ==
    [][/\ \A t \in Tasks :
            (t \in activeTasks' /\ t \notin activeTasks)
               => assigned'[t] \notin stopped
       /\ ShutdownEndStep =>
            /\ activeTasks' = {}
            /\ \A t \in Tasks : Submitted(t) => Len(settlements'[t]) > 0]_vars

\* every shutdown() call made on the pool so far has returned
ShutdownCompleted == shutdownsStarted > 0 /\ shutdownsWaiting = 0

\* C29: a task that waits in pendingTasks of a pool whose shutdown() has
\* completed is eventually settled.
C29_SettledAfterShutdown ==
    \A t \in Tasks :
        (ShutdownCompleted /\ t \in Range(pendingTasks)) ~> Settled(t)

\* C30: |workers| never exceeds maxWorkers, whatever error events arrive.
C30_WorkersBounded ==
    Len(workers) <= maxWorkers

(* ---- the registry ------------------------------------------------------ *)
\* the step is a getPool call; lastGet' holds its arguments and its result
GetPoolStep == regCalls'.get = regCalls.get + 1

\* the step is the part of a shutdownAll() call before its await / the part
\* of the k-th shutdownAll() call after its await
ShutdownAllBeginStep == Len(allCalls') = Len(allCalls) + 1
ShutdownAllEndStep(k) ==
    allCalls[k].state = "waiting" /\ allCalls'[k].state = "done"

\* every shutdown() call on pool p has returned, and so has every
\* shutdownAll() that covered it
HasBeenShutDown(p) ==
    /\ poolObjs[p].shutdownCalls > 0
    /\ poolObjs[p].waiting = <<>>
    /\ \A k \in 1..Len(allCalls) :
          p \in allCalls[k].snap => allCalls[k].state = "done"

\* C15: once a pool has been shut down (pool.shutdown() or shutdownAll()),
\* getPool with the same name and a config returns a fresh pool, never the
\* shut-down one.
C15_ShutDownPoolDiscarded ==
    [][(GetPoolStep /\ lastGet'.config # NoConfig) =>
          \A p \in Constructed :
              HasBeenShutDown(p) => lastGet'.result # p]_vars

\* C16: getPool for a registered name returns the registered pool object and
\* changes nothing: the config is ignored, no pool or worker is created.
C16_GetPoolReuses ==
    [][(GetPoolStep /\ pools[lastGet'.name] # NoPool) =>
          /\ lastGet'.result = pools[lastGet'.name]
          /\ pools' = pools
          /\ poolObjs' = poolObjs
          /\ nextPool' = nextPool]_vars

\* getPool returned the registered pool although the config passed asks for
\* another number of workers
C16_Witness ==
    /\ lastGet.name \in Names
    /\ lastGet.config # NoConfig
    /\ lastGet.result \in Constructed
    /\ nextPool = 2
    /\ pools[lastGet.name] = lastGet.result
    /\ poolObjs[lastGet.result].maxWorkers # lastGet.config
    /\ Len(poolObjs[lastGet.result].workers)
          = poolObjs[lastGet.result].maxWorkers

\* C17: getPool for an unregistered name throws and changes nothing when no
\* config is given; with a config it constructs a pool with config.maxWorkers
\* idle workers and stores it under the name.
C17_GetPoolCreates ==
    [][(GetPoolStep /\ pools[lastGet'.name] = NoPool) =>
          IF lastGet'.config = NoConfig
          THEN /\ lastGet'.result = Throw
               /\ pools' = pools
               /\ poolObjs' = poolObjs
               /\ nextPool' = nextPool
          ELSE /\ lastGet'.result = nextPool
               /\ nextPool' = nextPool + 1
               /\ pools' = [pools EXCEPT ![lastGet'.name] = nextPool]
               /\ \A p \in Constructed : poolObjs'[p] = poolObjs[p]
               /\ Len(poolObjs'[nextPool].workers) = lastGet'.config
               /\ poolObjs'[nextPool].availableWorkers
                     = poolObjs'[nextPool].workers]_vars

\* getPool without config has thrown for a name that is not registered while
\* another name is
C17_Witness ==
    /\ lastGet.name \in Names
    /\ lastGet.config = NoConfig
    /\ lastGet.result = Throw
    /\ pools[lastGet.name] = NoPool
    /\ Registered # {}

\* C18: shutdownAll() calls shutdown on every registered pool; when it
\* returns, each of them has no pending task, no active task and no worker,
\* and the registry is empty.
C18_ShutdownAllClears ==
    [][/\ ShutdownAllBeginStep =>
            \A p \in Registered :
                poolObjs'[p].shutdownCalls = poolObjs[p].shutdownCalls + 1
       /\ \A k \in 1..Len(allCalls) :
            ShutdownAllEndStep(k) =>
                /\ \A n \in Names : pools'[n] = NoPool
                /\ \A p \in allCalls[k].snap :
                      /\ poolObjs'[p].pendingTasks = <<>>
                      /\ poolObjs'[p].activeTasks = {}
                      /\ poolObjs'[p].workers = <<>>]_vars

\* C28: every pool that shutdownAll() drops from the registry has been shut
\* down: when shutdownAll() returns and clears the map, shutdown() has been
\* called on each pool registered at that moment and none of its workers is
\* still running.
C28_ClearedPoolsShutDown ==
    [][\A k \in 1..Len(allCalls) :
          ShutdownAllEndStep(k) =>
              \A n \in Names :
                  pools[n] # NoPool =>
                      /\ poolObjs[pools[n]].shutdownCalls > 0
                      /\ Range(poolObjs[pools[n]].workers)
                            \subseteq poolObjs[pools[n]].stopped]_vars

====
